---- MODULE Spec2Model ----
(***************************************************************************)
(* State machine of processing/task.py: the Task class, which binds one    *)
(* publish plugin to one collector item with a settings dictionary and     *)
(* carries the flags accepted / visible / enabled / checked.               *)
(*                                                                         *)
(* The plugin and the item are collaborators: the model records every call *)
(* a Task method makes on them (and on the loggers) in `calls`, and what   *)
(* the method hands back to its caller in `ret`.  Both describe the most   *)
(* recent method call only, as does `pre`, the receiver as it was when     *)
(* that call began.                                                        *)
(***************************************************************************)
EXTENDS Integers, Sequences, FiniteSets, TLC

\* Largest number of Task objects alive on the heap (factory specification).
MaxTasks == 2

\* Plugin instances, collector items, and the python value None.
Plugins == {"p1", "p2"}
Items == {"i1", "i2"}
None == "None"

\* What a collaborator raises when it fails.
Exceptions == {"RuntimeError"}

\* Settings dictionaries: every mapping from a subset of the keys to a value.
SettingKeys == {"a", "b"}
SettingVals == {1}
SettingsSet == UNION {[K -> SettingVals] : K \in SUBSET SettingKeys}

\* The dictionaries plugin.run_accept can return: any subset of the four
\* boolean keys, with or without an "extra_info" payload.
BoolKeys == {"accepted", "visible", "enabled", "checked"}
ExtraInfos == {"info"}
BoolDicts == UNION {[K -> BOOLEAN] : K \in SUBSET BoolKeys}
WithExtra(d, e) ==
    [k \in (DOMAIN d) \cup {"extra_info"} |-> IF k = "extra_info" THEN e ELSE d[k]]
AcceptResults == BoolDicts \cup {WithExtra(d, e) : d \in BoolDicts, e \in ExtraInfos}

\* The inputs of the factory specification: two settings dictionaries and the
\* two bare verdicts of run_accept.
FactorySettings == {s \in SettingsSet : DOMAIN s \subseteq {"a"}}
VerdictResults == {d \in BoolDicts : DOMAIN d = {"accepted"}}

VARIABLES
    tasks,        \* heap of Task objects, a sequence indexed by object identity
    returned,     \* identities create_task has returned to its caller
    pluginTasks,  \* plugin -> the tasks registered through plugin.add_task
    itemTasks,    \* item -> the tasks registered through item.add_task
    calls,        \* collaborator calls made by the most recent method call
    ret,          \* the most recent method call: its argument and its outcome
    pre           \* the receiver of that call as it was when the call began

vars == <<tasks, returned, pluginTasks, itemTasks, calls, ret, pre>>

----------------------------------------------------------------------------
\* python helpers

\* dict.get(key, default)
DictGet(d, k, default) == IF k \in DOMAIN d THEN d[k] ELSE default

\* truth value of dict.get(key): a missing key gives None, which is false
DictGetTruthy(d, k) == k \in DOMAIN d /\ d[k] = TRUE

\* plugin.name / item.name as used in the log messages
PluginName(p) == p
ItemName(i) == i

\* "%s" rendering of a task: "<Task: %s for %s >" % (plugin, item)
Repr(t) == <<"<Task:", t.plugin, "for", t.item, ">">>

\* the outcome of a method call op(arg) on task id: a value or an exception
Returned(op, id, arg, v) ==
    [op |-> op, task |-> id, arg |-> arg, kind |-> "return", value |-> v]
Raised(op, id, arg, exc) ==
    [op |-> op, task |-> id, arg |-> arg, kind |-> "raise", value |-> exc]

\* a call made on a collaborator, as recorded in `calls`: the callee, its
\* arguments, and whether it returned a value or raised an exception
Call(fn, on, args, outcome, result) ==
    [fn |-> fn, on |-> on, args |-> args, outcome |-> outcome, result |-> result]

----------------------------------------------------------------------------
\* Task.__init__

\* variant: the constructor stores its first two arguments crosswise
TaskInitSwapped(p, i, s) ==
    [plugin |-> i, item |-> p, settings |-> s,
     accepted |-> FALSE, visible |-> TRUE, enabled |-> TRUE, checked |-> TRUE]

\* lines 24-39
TaskInit(p, i, s) ==
    [plugin |-> p, item |-> i, settings |-> s,
     accepted |-> FALSE, visible |-> TRUE, enabled |-> TRUE, checked |-> TRUE]

----------------------------------------------------------------------------
\* Task.create_task

\* plugin.add_task / item.add_task: append the task to the collection
AddTask(coll, owner, id) == [coll EXCEPT ![owner] = Append(@, id)]

PluginAddTaskCall(p, id, outcome, result) ==
    Call("plugin.add_task", p, <<id>>, outcome, result)
ItemAddTaskCall(i, id, outcome, result) ==
    Call("item.add_task", i, <<id>>, outcome, result)
CreatedLogCall(t) == Call("logger.debug", "module", <<"Created", Repr(t)>>, "return", None)

\* variant: the item is registered before the plugin
CreateTaskOkItemFirst(p, i, s) ==
    LET id == Len(tasks) + 1
        t == TaskInit(p, i, s)
    IN  /\ tasks' = Append(tasks, t)
        /\ pluginTasks' = AddTask(pluginTasks, p, id)
        /\ itemTasks' = AddTask(itemTasks, i, id)
        /\ returned' = returned \cup {id}
        /\ calls' = <<ItemAddTaskCall(i, id, "return", None),
                      PluginAddTaskCall(p, id, "return", None),
                      CreatedLogCall(t)>>
        /\ ret' = Returned("create_task", id, <<p, i, s>>, id)
        /\ pre' = t

\* lines 60-64 with both registrations returning
CreateTaskOk(p, i, s) ==
    LET id == Len(tasks) + 1
        t == TaskInit(p, i, s)
    IN  /\ tasks' = Append(tasks, t)
        /\ pluginTasks' = AddTask(pluginTasks, p, id)
        /\ itemTasks' = AddTask(itemTasks, i, id)
        /\ returned' = returned \cup {id}
        /\ calls' = <<PluginAddTaskCall(p, id, "return", None),
                      ItemAddTaskCall(i, id, "return", None),
                      CreatedLogCall(t)>>
        /\ ret' = Returned("create_task", id, <<p, i, s>>, id)
        /\ pre' = t

\* plugin.add_task raises: the new object is dropped, nothing was registered.
CreateTaskPluginFails(p, i, s, exc) ==
    LET id == Len(tasks) + 1
    IN  /\ calls' = <<PluginAddTaskCall(p, id, "raise", exc)>>
        /\ ret' = Raised("create_task", id, <<p, i, s>>, exc)
        /\ pre' = TaskInit(p, i, s)
        /\ UNCHANGED <<tasks, returned, pluginTasks, itemTasks>>

\* item.add_task raises after plugin.add_task returned: the exception leaves
\* create_task at once, the plugin keeps the task it was handed.
CreateTaskItemFails(p, i, s, exc) ==
    LET id == Len(tasks) + 1
        t == TaskInit(p, i, s)
    IN  /\ tasks' = Append(tasks, t)
        /\ pluginTasks' = AddTask(pluginTasks, p, id)
        /\ calls' = <<PluginAddTaskCall(p, id, "return", None),
                      ItemAddTaskCall(i, id, "raise", exc)>>
        /\ ret' = Raised("create_task", id, <<p, i, s>>, exc)
        /\ pre' = t
        /\ UNCHANGED <<returned, itemTasks>>

CreateTask ==
    /\ Len(tasks) < MaxTasks
    /\ \E p \in Plugins, i \in Items, s \in FactorySettings :
        \/ CreateTaskOk(p, i, s)
        \/ \E exc \in Exceptions : CreateTaskPluginFails(p, i, s, exc)
        \/ \E exc \in Exceptions : CreateTaskItemFails(p, i, s, exc)

----------------------------------------------------------------------------
\* Task.accept

\* line 128: self.plugin.run_accept(self.settings, self.item)
RunAcceptCall(t, outcome, result) ==
    Call("run_accept", t.plugin, <<t.settings, t.item>>, outcome, result)

\* lines 134-137 and 157-160: self.plugin.logger.info(message, extra=...)
InfoLogCall(t, verdict, data) ==
    Call("plugin.logger.info", t.plugin,
         <<"Plugin:", PluginName(t.plugin), verdict, ItemName(t.item),
           DictGet(data, "extra_info", None)>>,
         "return", None)

\* variant: the selection is taken from the plugin on every acceptance
UpdateSelectionAlways(t, data) ==
    [t EXCEPT !.accepted = TRUE, !.checked = DictGet(data, "checked", TRUE)]

\* variant: the test of line 149 is inverted
UpdateSelectionInverted(t, data) ==
    IF t.accepted
    THEN [t EXCEPT !.checked = DictGet(data, "checked", TRUE)]
    ELSE [t EXCEPT !.accepted = TRUE]

\* lines 148-153: selection is only taken from the plugin on a task that was
\* not accepted before
UpdateSelection(t, data) ==
    IF ~t.accepted
    THEN [t EXCEPT !.accepted = TRUE, !.checked = DictGet(data, "checked", TRUE)]
    ELSE t

\* variant: a key the plugin leaves out keeps the flag's old value
AcceptedBranchKeepsOld(t, data) ==
    UpdateSelection([t EXCEPT !.visible = DictGet(data, "visible", t.visible),
                              !.enabled = DictGet(data, "enabled", t.enabled)], data)

\* lines 129-153: the accepted branch
AcceptedBranch(t, data) ==
    UpdateSelection([t EXCEPT !.visible = DictGet(data, "visible", TRUE),
                              !.enabled = DictGet(data, "enabled", TRUE)], data)

\* variant: a rejection also puts visible back to its default
RejectedBranchResetsVisible(t) ==
    [t EXCEPT !.accepted = FALSE, !.enabled = FALSE, !.checked = FALSE,
              !.visible = TRUE]

\* variant: a rejection switches the task off but leaves it accepted
RejectedBranchStaysAccepted(t) ==
    [t EXCEPT !.enabled = FALSE, !.checked = FALSE]

\* variant: a rejection disables the task but leaves its check mark
RejectedBranchKeepsChecked(t) ==
    [t EXCEPT !.accepted = FALSE, !.enabled = FALSE]

\* lines 156-163: the rejected branch
RejectedBranch(t) ==
    [t EXCEPT !.accepted = FALSE, !.enabled = FALSE, !.checked = FALSE]

\* variant: a missing "accepted" key counts as an acceptance
IsAcceptingByDefault(data) == DictGet(data, "accepted", TRUE) = TRUE

\* line 129: if accept_data.get("accepted")
IsAccepting(data) == DictGetTruthy(data, "accepted")

AcceptUpdate(t, data) ==
    IF IsAccepting(data) THEN AcceptedBranch(t, data) ELSE RejectedBranch(t)

\* variant: the record is logged without the plugin's extra_info
AcceptLogNoPayload(t, data) ==
    InfoLogCall(t, IF IsAccepting(data) THEN "Accepted:" ELSE "Rejected:", <<>>)

\* lines 134-137 and 157-160
AcceptLog(t, data) ==
    InfoLogCall(t, IF IsAccepting(data) THEN "Accepted:" ELSE "Rejected:", data)

AcceptReturns(id, data) ==
    /\ tasks' = [tasks EXCEPT ![id] = AcceptUpdate(tasks[id], data)]
    /\ calls' = <<RunAcceptCall(tasks[id], "return", data), AcceptLog(tasks[id], data)>>
    /\ ret' = Returned("accept", id, None, None)
    /\ pre' = tasks[id]
    /\ UNCHANGED <<returned, pluginTasks, itemTasks>>

\* variant: a failing run_accept is caught and handled as a rejection
AcceptRaisesRejects(id, exc) ==
    /\ tasks' = [tasks EXCEPT ![id] = RejectedBranch(tasks[id])]
    /\ calls' = <<RunAcceptCall(tasks[id], "raise", exc), AcceptLog(tasks[id], <<>>)>>
    /\ ret' = Returned("accept", id, None, None)
    /\ pre' = tasks[id]
    /\ UNCHANGED <<returned, pluginTasks, itemTasks>>

\* plugin.run_accept raises: nothing after line 128 runs
AcceptRaises(id, exc) ==
    /\ calls' = <<RunAcceptCall(tasks[id], "raise", exc)>>
    /\ ret' = Raised("accept", id, None, exc)
    /\ pre' = tasks[id]
    /\ UNCHANGED <<tasks, returned, pluginTasks, itemTasks>>

AcceptWith(results) ==
    \E id \in returned :
        \/ \E data \in results : AcceptReturns(id, data)
        \/ \E exc \in Exceptions : AcceptRaises(id, exc)

Accept == AcceptWith(AcceptResults)

\* accept() as the factory specification drives it: a bare verdict
AcceptVerdict == AcceptWith(VerdictResults)

----------------------------------------------------------------------------
\* Task.validate / Task.publish / Task.finalize

\* self.plugin.run_xxx(self.settings, self.item)
RunCall(fn, t, outcome, result) ==
    Call(fn, t.plugin, <<t.settings, t.item>>, outcome, result)

\* variant: a failure of the plugin is swallowed and reported as False
ForwardedSwallows(op, id, outcome, result) ==
    IF outcome = "raise" THEN Returned(op, id, None, FALSE)
    ELSE Returned(op, id, None, IF op = "validate" THEN result ELSE None)

\* what the caller of a forwarding method gets: validate returns the plugin's
\* value, publish and finalize return nothing, an exception passes through
Forwarded(op, id, outcome, result) ==
    IF outcome = "raise" THEN Raised(op, id, None, result)
    ELSE Returned(op, id, None, IF op = "validate" THEN result ELSE None)

\* variant: a failing plugin call switches the task off
DelegateUnchecks(op, fn, id, outcome, result) ==
    /\ calls' = <<RunCall(fn, tasks[id], outcome, result)>>
    /\ ret' = Forwarded(op, id, outcome, result)
    /\ pre' = tasks[id]
    /\ tasks' = IF outcome = "raise" THEN [tasks EXCEPT ![id].checked = FALSE] ELSE tasks
    /\ UNCHANGED <<returned, pluginTasks, itemTasks>>

\* variant: the plugin is only called for a task that is accepted and checked
DelegateGated(op, fn, id, outcome, result) ==
    /\ tasks[id].accepted /\ tasks[id].checked
    /\ calls' = <<RunCall(fn, tasks[id], outcome, result)>>
    /\ ret' = Forwarded(op, id, outcome, result)
    /\ pre' = tasks[id]
    /\ UNCHANGED <<tasks, returned, pluginTasks, itemTasks>>

\* a method that only forwards to the plugin
Delegate(op, fn, id, outcome, result) ==
    /\ calls' = <<RunCall(fn, tasks[id], outcome, result)>>
    /\ ret' = Forwarded(op, id, outcome, result)
    /\ pre' = tasks[id]
    /\ UNCHANGED <<tasks, returned, pluginTasks, itemTasks>>

Validate ==
    \E id \in returned :
        \/ \E b \in BOOLEAN : Delegate("validate", "run_validate", id, "return", b)
        \/ \E exc \in Exceptions : Delegate("validate", "run_validate", id, "raise", exc)

Publish ==
    \E id \in returned :
        \/ Delegate("publish", "run_publish", id, "return", None)
        \/ \E exc \in Exceptions : Delegate("publish", "run_publish", id, "raise", exc)

Finalize ==
    \E id \in returned :
        \/ Delegate("finalize", "run_finalize", id, "return", None)
        \/ \E exc \in Exceptions : Delegate("finalize", "run_finalize", id, "raise", exc)

----------------------------------------------------------------------------
\* Task.settings setter

\* variant: the new dictionary is merged into the old one (dict.update)
SettingsSetterMerges(t, s) ==
    [t EXCEPT !.settings = [k \in (DOMAIN t.settings) \cup (DOMAIN s) |->
                               IF k \in DOMAIN s THEN s[k] ELSE t.settings[k]]]

\* lines 119-122
SettingsSetter(t, s) == [t EXCEPT !.settings = s]

SetSettings ==
    \E id \in returned, s \in SettingsSet :
        /\ tasks' = [tasks EXCEPT ![id] = SettingsSetter(tasks[id], s)]
        /\ calls' = <<>>
        /\ ret' = Returned("settings", id, s, None)
        /\ pre' = tasks[id]
        /\ UNCHANGED <<returned, pluginTasks, itemTasks>>

----------------------------------------------------------------------------
\* Task.is_same_task_type

\* variant: two tasks are of the same type only on the same item
IsSameTaskTypeSameItem(t, other) == t.plugin = other.plugin /\ t.item = other.item

\* line 74
IsSameTaskTypeResult(t, other) == t.plugin = other.plugin

IsSameTaskType ==
    \E id \in returned, other \in returned :
        /\ calls' = <<>>
        /\ ret' = Returned("is_same_task_type", id, other,
                           IsSameTaskTypeResult(tasks[id], tasks[other]))
        /\ pre' = tasks[id]
        /\ UNCHANGED <<tasks, returned, pluginTasks, itemTasks>>

----------------------------------------------------------------------------
\* Specifications

NoTasks(owners) == [o \in owners |-> <<>>]

\* Life of one task: the state right after a successful create_task, then any
\* sequence of method calls on the task.
Init ==
    \E p \in Plugins, i \in Items, s \in SettingsSet :
        /\ tasks = <<TaskInit(p, i, s)>>
        /\ returned = {1}
        /\ pluginTasks = AddTask(NoTasks(Plugins), p, 1)
        /\ itemTasks = AddTask(NoTasks(Items), i, 1)
        /\ calls = <<PluginAddTaskCall(p, 1, "return", None),
                     ItemAddTaskCall(i, 1, "return", None),
                     CreatedLogCall(TaskInit(p, i, s))>>
        /\ ret = Returned("create_task", 1, <<p, i, s>>, 1)
        /\ pre = TaskInit(p, i, s)

Next == Accept \/ Validate \/ Publish \/ Finalize \/ SetSettings

Spec == Init /\ [][Next]_vars

\* The factory: an empty heap, then tasks are created, evaluated and compared.
InitFactory ==
    /\ tasks = <<>>
    /\ returned = {}
    /\ pluginTasks = NoTasks(Plugins)
    /\ itemTasks = NoTasks(Items)
    /\ calls = <<>>
    /\ ret = Returned("none", 0, None, None)
    /\ pre = None

NextFactory == CreateTask \/ IsSameTaskType \/ AcceptVerdict

SpecFactory == InitFactory /\ [][NextFactory]_vars

----------------------------------------------------------------------------
\* Properties

\* the receiver of the most recent call, and what run_accept gave it
Self == tasks[ret.task]
Result == calls[1].result
AcceptReturned == ret.op = "accept" /\ ret.kind = "return"
ResultAccepting == "accepted" \in DOMAIN Result /\ Result["accepted"]
ResultOr(k, default) == IF k \in DOMAIN Result THEN Result[k] ELSE default
Count(x, seq) == Cardinality({k \in DOMAIN seq : seq[k] = x})
Forwarding == {"validate", "publish", "finalize"}
RunOf(op) == IF op = "validate" THEN "run_validate"
             ELSE IF op = "publish" THEN "run_publish" ELSE "run_finalize"

\* C1: an accept() on a task that is already accepted, with an accepting
\* result, leaves checked as it was before the call, whatever checked the
\* result carries, and takes visible and enabled from the new result.
C1_ReacceptKeepsChecked ==
    (AcceptReturned /\ pre.accepted /\ ResultAccepting) =>
        /\ Self.checked = pre.checked
        /\ Self.visible = ResultOr("visible", TRUE)
        /\ Self.enabled = ResultOr("enabled", TRUE)

\* reached: a re-acceptance whose result carries the other checked value and
\* another visible value
C1_Witness ==
    /\ AcceptReturned /\ pre.accepted /\ ResultAccepting
    /\ "checked" \in DOMAIN Result /\ Result["checked"] # pre.checked
    /\ Self.checked = pre.checked
    /\ Self.visible # pre.visible

\* C2: an accept() whose result is not accepting ends with accepted, enabled
\* and checked all false and with visible as it was before the call.
C2_RejectionForcesOff ==
    (AcceptReturned /\ ~ResultAccepting) =>
        /\ Self.accepted = FALSE
        /\ Self.enabled = FALSE
        /\ Self.checked = FALSE
        /\ Self.visible = pre.visible

\* reached: an accepted, checked, hidden task is rejected and stays hidden
C2_Witness ==
    /\ AcceptReturned /\ ~ResultAccepting
    /\ "accepted" \in DOMAIN Result
    /\ pre.accepted /\ pre.checked /\ pre.enabled /\ ~pre.visible
    /\ ~Self.visible /\ ~Self.checked

\* C3: after every accept() in which run_accept returned, the accepted flag is
\* the accepted value of that result, and a result without the key is a
\* rejection: accept() returns and logs the rejection.
C3_AcceptedFollowsLatestResult ==
    (ret.op = "accept" /\ calls[1].outcome = "return") =>
        /\ ret.kind = "return"
        /\ Self.accepted = ResultAccepting
        /\ "accepted" \notin DOMAIN Result =>
              /\ Len(calls) = 2
              /\ calls[2].fn = "plugin.logger.info"
              /\ calls[2].args[3] = "Rejected:"

\* reached: an accepted task gets a result without the "accepted" key
C3_Witness ==
    /\ ret.op = "accept" /\ calls[1].outcome = "return"
    /\ "accepted" \notin DOMAIN Result
    /\ pre.accepted
    /\ ret.kind = "return" /\ ~Self.accepted

\* C4: on every accepting accept(), visible and enabled become the result's
\* values, true when the key is missing; on a task that was not accepted,
\* checked becomes the result's value (true when missing) and accepted true.
C4_AcceptingSetsFields ==
    (AcceptReturned /\ ResultAccepting) =>
        /\ Self.visible = ResultOr("visible", TRUE)
        /\ Self.enabled = ResultOr("enabled", TRUE)
        /\ ~pre.accepted => (Self.accepted /\ Self.checked = ResultOr("checked", TRUE))

\* reached: a rejected task is accepted again with a result that names no
\* flag, and a fresh task is not needed for the defaults to apply
C4_Witness ==
    /\ AcceptReturned /\ ResultAccepting
    /\ DOMAIN Result = {"accepted"}
    /\ ~pre.accepted /\ ~pre.visible /\ ~pre.enabled /\ ~pre.checked
    /\ Self.accepted /\ Self.visible /\ Self.enabled /\ Self.checked

\* C5: when create_task fails because a registration call failed, the task is
\* in neither the plugin's nor the item's collection.
C5_CreateIsAtomic ==
    (ret.op = "create_task" /\ ret.kind = "raise") =>
        /\ \A p \in Plugins : Count(ret.task, pluginTasks[p]) = 0
        /\ \A i \in Items : Count(ret.task, itemTasks[i]) = 0

\* C6: a successful create_task(plugin, item, settings) returns a task with
\* accepted false and visible, enabled, checked true, registered exactly once
\* with the plugin and exactly once with the item, the plugin first.
C6_CreateRegistersOnceInOrder ==
    (ret.op = "create_task" /\ ret.kind = "return") =>
        LET id == ret.value
            p == ret.arg[1]
            i == ret.arg[2]
            regs == {k \in DOMAIN calls : calls[k].fn \in {"plugin.add_task", "item.add_task"}}
        IN  /\ id \in returned
            /\ tasks[id] = [plugin |-> p, item |-> i, settings |-> ret.arg[3],
                            accepted |-> FALSE, visible |-> TRUE,
                            enabled |-> TRUE, checked |-> TRUE]
            /\ \A q \in Plugins : Count(id, pluginTasks[q]) = IF q = p THEN 1 ELSE 0
            /\ \A j \in Items : Count(id, itemTasks[j]) = IF j = i THEN 1 ELSE 0
            /\ regs = {1, 2}
            /\ calls[1].fn = "plugin.add_task" /\ calls[1].on = p /\ calls[1].args = <<id>>
            /\ calls[2].fn = "item.add_task" /\ calls[2].on = i /\ calls[2].args = <<id>>

\* reached: a second task is created on a plugin and an item that already
\* hold one
C6_Witness ==
    /\ ret.op = "create_task" /\ ret.kind = "return"
    /\ Len(pluginTasks[ret.arg[1]]) = 2
    /\ Len(itemTasks[ret.arg[2]]) = 2

\* C7: validate(), publish() and finalize() leave accepted, visible, enabled,
\* checked and settings of the task as they were, whether the plugin call
\* returns or raises.
C7_ForwardingKeepsTask ==
    (ret.op \in Forwarding) => Self = pre

\* reached: a failing publish() on an accepted, unchecked, disabled task
C7_Witness ==
    /\ ret.op = "publish" /\ ret.kind = "raise"
    /\ Self.accepted /\ ~Self.checked /\ ~Self.enabled /\ Self = pre

\* C8: validate(), publish() and finalize() call the plugin's operation once,
\* with the task's settings of that moment (after an assignment, the assigned
\* dictionary) and its item; validate() returns the plugin's boolean; an
\* exception of the plugin reaches the caller as it is, with no second call.
C8_ForwardsOnce ==
    (ret.op \in Forwarding) =>
        /\ Len(calls) = 1
        /\ calls[1].fn = RunOf(ret.op)
        /\ calls[1].on = Self.plugin
        /\ calls[1].args = <<Self.settings, Self.item>>
        /\ calls[1].outcome = "return" =>
              (ret.kind = "return" /\ (ret.op = "validate" => ret.value = calls[1].result))
        /\ calls[1].outcome = "raise" =>
              (ret.kind = "raise" /\ ret.value = calls[1].result)

C8_UsesAssignedSettings ==
    (ret.op = "settings" /\ ret'.op \in Forwarding) => calls'[1].args[1] = ret.arg

C8_PassThrough == [](C8_ForwardsOnce) /\ [][C8_UsesAssignedSettings]_vars

\* reached: validate() hands back the plugin's False, called with a settings
\* dictionary of two keys
C8_Witness ==
    /\ ret.op = "validate" /\ ret.kind = "return" /\ ret.value = FALSE
    /\ calls[1].result = FALSE
    /\ DOMAIN calls[1].args[1] = {"a", "b"}

\* C9: is_same_task_type(a, b) is true exactly when a and b hold the same
\* plugin instance, whatever their items, settings and flags, and the call
\* changes nothing.
C9_SameIffSamePlugin ==
    (ret.op = "is_same_task_type") =>
        (ret.value = (tasks[ret.task].plugin = tasks[ret.arg].plugin))

C9_ChangesNothing ==
    (ret'.op = "is_same_task_type") => UNCHANGED <<tasks, returned, pluginTasks, itemTasks>>

C9_SameType == [](C9_SameIffSamePlugin) /\ [][C9_ChangesNothing]_vars

\* reached: two tasks of one plugin on different items, with different
\* settings and flags, compare as the same type
C9_Witness ==
    /\ ret.op = "is_same_task_type" /\ ret.value = TRUE
    /\ tasks[ret.task].item # tasks[ret.arg].item
    /\ tasks[ret.task].settings # tasks[ret.arg].settings
    /\ tasks[ret.task].accepted /\ ~tasks[ret.arg].accepted

\* C10: assigning settings replaces the whole dictionary (a key of the old one
\* that is not in the new one is gone), changes none of the four flags and
\* makes no call on the plugin.
C10_SettingsReplaced ==
    (ret.op = "settings") =>
        /\ Self.settings = ret.arg
        /\ \A k \in DOMAIN pre.settings : k \notin DOMAIN ret.arg => k \notin DOMAIN Self.settings
        /\ Self.accepted = pre.accepted /\ Self.visible = pre.visible
        /\ Self.enabled = pre.enabled /\ Self.checked = pre.checked
        /\ calls = <<>>

\* reached: on an accepted, unchecked task a dictionary with key "a" is
\* replaced by one with key "b" only
C10_Witness ==
    /\ ret.op = "settings"
    /\ DOMAIN pre.settings = {"a"} /\ DOMAIN ret.arg = {"b"}
    /\ DOMAIN Self.settings = {"b"}
    /\ Self.accepted /\ ~Self.checked

\* C11: the plugin and the item of a task are those passed to create_task and
\* no accept, validate, publish, finalize or settings assignment changes them.
C11_BoundAtCreation ==
    (ret.op = "create_task" /\ ret.kind = "return") =>
        (tasks[ret.value].plugin = ret.arg[1] /\ tasks[ret.value].item = ret.arg[2])

C11_NeverRebound ==
    \A id \in DOMAIN tasks :
        tasks'[id].plugin = tasks[id].plugin /\ tasks'[id].item = tasks[id].item

C11_BindingImmutable == [](C11_BoundAtCreation) /\ [][C11_NeverRebound]_vars

\* reached: after an acceptance and a settings assignment the task still holds
\* the plugin and the item it was registered with when it was created
C11_Witness ==
    /\ ret.op = "settings" /\ pre.settings # Self.settings
    /\ Self.accepted
    /\ Count(ret.task, pluginTasks[Self.plugin]) = 1
    /\ Count(ret.task, itemTasks[Self.item]) = 1

\* C12: every accept() in which run_accept returned logs exactly one record,
\* on the plugin's logger at info level: "Accepted" for an accepting result,
\* "Rejected" otherwise, with the result's extra_info; validate(), publish()
\* and finalize() log nothing.
LogCalls == {k \in DOMAIN calls : calls[k].fn \in {"plugin.logger.info", "logger.debug"}}

C12_AcceptLogsOnce ==
    /\ AcceptReturned =>
          /\ LogCalls = {2}
          /\ calls[2].fn = "plugin.logger.info"
          /\ calls[2].on = Self.plugin
          /\ calls[2].args =
                <<"Plugin:", Self.plugin,
                  IF ResultAccepting THEN "Accepted:" ELSE "Rejected:",
                  Self.item, ResultOr("extra_info", None)>>
    /\ ret.op \in Forwarding => LogCalls = {}

\* reached: a rejection whose result carries an extra_info payload
C12_Witness ==
    /\ AcceptReturned /\ ~ResultAccepting
    /\ "extra_info" \in DOMAIN Result
    /\ calls[2].args[3] = "Rejected:" /\ calls[2].args[5] = Result["extra_info"]

\* C13: checked is taken from the plugin's result once per acceptance episode
\* (a run of states in which the task is accepted): the episode begins with an
\* accepting accept() that sets checked from the result (true when the key is
\* missing), no step inside the episode changes checked, and only a rejecting
\* accept() ends it.
AcceptStepOn(id) ==
    ret'.op = "accept" /\ ret'.task = id /\ ret'.kind = "return"
AcceptingStep == "accepted" \in DOMAIN calls'[1].result /\ calls'[1].result["accepted"]

C13_EpisodeStep ==
    \A id \in DOMAIN tasks :
        /\ (AcceptStepOn(id) /\ AcceptingStep) => tasks'[id].accepted
        /\ (~tasks[id].accepted /\ tasks'[id].accepted) =>
              /\ AcceptStepOn(id) /\ AcceptingStep
              /\ tasks'[id].checked =
                    IF "checked" \in DOMAIN calls'[1].result
                    THEN calls'[1].result["checked"] ELSE TRUE
        /\ (tasks[id].accepted /\ tasks'[id].accepted) =>
              tasks'[id].checked = tasks[id].checked
        /\ (tasks[id].accepted /\ ~tasks'[id].accepted) =>
              (AcceptStepOn(id) /\ ~AcceptingStep)

C13_CheckedOncePerEpisode == [][C13_EpisodeStep]_vars

\* reached: inside an episode that began unchecked, an accepting result
\* without a "checked" key leaves the task unchecked
C13_Witness ==
    /\ AcceptReturned /\ ResultAccepting
    /\ "checked" \notin DOMAIN Result
    /\ pre.accepted /\ ~pre.checked
    /\ Self.accepted /\ ~Self.checked

\* C14: no order of calls is enforced and no flag gates a call: in every
\* reachable state validate(), publish() and finalize() call the plugin, and
\* accept() can be called again.
C14_AlwaysCallable ==
    \A id \in returned :
        /\ ENABLED (Validate /\ ret'.task = id /\ calls'[1].fn = "run_validate")
        /\ ENABLED (Publish /\ ret'.task = id /\ calls'[1].fn = "run_publish")
        /\ ENABLED (Finalize /\ ret'.task = id /\ calls'[1].fn = "run_finalize")
        /\ ENABLED (Accept /\ ret'.task = id /\ calls'[1].fn = "run_accept")

\* reached: finalize() has called the plugin on a task that still has the
\* flags of a new task, so before any accept() returned
C14_Witness ==
    /\ ret.op = "finalize" /\ ret.kind = "return"
    /\ calls[1].fn = "run_finalize"
    /\ ~Self.accepted /\ Self.enabled /\ Self.checked

\* C15: once an accept() has returned, a task that is not accepted is neither
\* enabled nor checked: every returning accept() makes this true and every
\* call keeps it true.  A newly created task is not accepted, yet enabled and
\* checked.
Off(t) == ~t.accepted => (~t.enabled /\ ~t.checked)

C15_NewTaskIsOn ==
    (ret.op = "create_task" /\ ret.kind = "return") =>
        (~Self.accepted /\ Self.enabled /\ Self.checked)

C15_OffStep ==
    \A id \in DOMAIN tasks :
        /\ AcceptStepOn(id) => Off(tasks'[id])
        /\ Off(tasks[id]) => Off(tasks'[id])

C15_UnacceptedIsOff == [](C15_NewTaskIsOn) /\ [][C15_OffStep]_vars

\* reached: validate() runs on a task that a past accept() rejected
C15_Witness ==
    /\ ret.op = "validate"
    /\ ~Self.accepted /\ ~Self.enabled /\ ~Self.checked

\* C16: accept() calls run_accept exactly once, with the settings and the item
\* the task holds when the call begins; when run_accept raises, the exception
\* reaches the caller, the task is as it was and nothing is logged.
RunAcceptCalls == {k \in DOMAIN calls : calls[k].fn = "run_accept"}

C16_AcceptEvaluatesOnce ==
    (ret.op = "accept") =>
        /\ RunAcceptCalls = {1}
        /\ calls[1].on = pre.plugin
        /\ calls[1].args = <<pre.settings, pre.item>>
        /\ calls[1].outcome = "raise" =>
              /\ ret.kind = "raise" /\ ret.value = calls[1].result
              /\ Self = pre
              /\ LogCalls = {}

\* reached: run_accept raises on an accepted, checked, hidden task
C16_Witness ==
    /\ ret.op = "accept" /\ ret.kind = "raise"
    /\ calls[1].outcome = "raise"
    /\ Self.accepted /\ Self.checked /\ ~Self.visible /\ Self.enabled

\* C17: an accept() that follows an accept() of the same task with the same
\* result leaves accepted, visible, enabled and checked as the first left them.
C17_SecondAcceptStep ==
    (/\ ret.op = "accept" /\ ret.kind = "return"
     /\ ret'.op = "accept" /\ ret'.kind = "return" /\ ret'.task = ret.task
     /\ calls'[1].result = calls[1].result) =>
        /\ tasks'[ret.task].accepted = tasks[ret.task].accepted
        /\ tasks'[ret.task].visible = tasks[ret.task].visible
        /\ tasks'[ret.task].enabled = tasks[ret.task].enabled
        /\ tasks'[ret.task].checked = tasks[ret.task].checked

C17_AcceptIdempotent == [][C17_SecondAcceptStep]_vars

\* reached: an accepting result that hides, disables and unchecks is applied
\* to a task that is accepted, hidden, disabled and unchecked, and changes
\* nothing
C17_Witness ==
    /\ AcceptReturned /\ ResultAccepting
    /\ {"visible", "enabled", "checked"} \subseteq DOMAIN Result
    /\ ~Result["visible"] /\ ~Result["enabled"] /\ ~Result["checked"]
    /\ pre.accepted /\ ~pre.visible /\ ~pre.enabled /\ ~pre.checked
    /\ Self = pre

====
